---------------------------- MODULE Spec2Model ----------------------------
(***************************************************************************)
(* A model of src/app.js: the aurora forecast page.  Two fetch pipelines   *)
(* (fetch3DayForecast, fetch27DayForecast) run concurrently under          *)
(* loadData; the user can press the two mode buttons and change the        *)
(* timezone selector at any time, also while the fetches are pending.      *)
(*                                                                         *)
(* Conventions of the model                                                *)
(*   - a JavaScript string that the code takes apart (a report line, a Kp  *)
(*     field) or puts together (a label) is a sequence of one-character    *)
(*     strings;                                                            *)
(*   - a JavaScript number is a record holding a fixed-point integer that  *)
(*     counts hundredths (3.33 is [hundredths |-> 333]); NaN is a record   *)
(*     of its own;                                                         *)
(*   - a reference that may be null is a sequence of at most one value:    *)
(*     Null is the empty one, Some(v) holds v, and Val reads it;           *)
(*   - a time_tag "YYYY-MM-DD HH:MM:SS" of January is the record of its    *)
(*     day, hour and minute; a timezone is its offset from UTC in January. *)
(***************************************************************************)
EXTENDS Integers, Sequences, FiniteSets, TLC

VARIABLES
    raw3DayData,        \* app.js:11  null or the retained raw entries
    threeDayData,       \* app.js:12  null or the processed three-day series
    twentySevenDayData, \* app.js:13  null or the twenty-seven-day series
    currentMode,        \* app.js:14
    currentTimezone,    \* app.js:15
    chart,              \* app.js:10  chart.data.labels / datasets[0].data / backgroundColor
    errorMsg,           \* app.js:6   innerText and style.display of #error
    loadingIndicator,   \* app.js:5   style.display of #loading
    pc3,                \* position of fetch3DayForecast: "fetch", "json", "done"
    pc27,               \* position of fetch27DayForecast: "fetch", "text", "done"
    pcLoad,             \* position of loadData: "await" (at Promise.all), "done"
    d3,                 \* value fetch3DayForecast resolved to (d3 of app.js:230)
    d27,                \* value fetch27DayForecast resolved to (d27 of app.js:230)
    rawData,            \* app.js:81  the parsed JSON body, null until it arrives
    textData,           \* app.js:105 the text body, null until it arrives
    err3,               \* app.js:94  message of the error fetch3DayForecast caught, or null
    err27,              \* app.js:138 message of the error fetch27DayForecast caught, or null
    settled             \* the order in which the two promises of Promise.all settled

vars == << raw3DayData, threeDayData, twentySevenDayData, currentMode,
           currentTimezone, chart, errorMsg, loadingIndicator, pc3, pc27,
           pcLoad, d3, d27, rawData, textData, err3, err27, settled >>

Null == << >>
Some(v) == << v >>
Val(x) == x[1]

NaN == [ nan |-> TRUE ]
Number(h) == [ hundredths |-> h ]

-----------------------------------------------------------------------------
(* Characters and numbers *)

DigitChars == << "0", "1", "2", "3", "4", "5", "6", "7", "8", "9" >>

IsDigit(c) == \E i \in 1..10 : DigitChars[i] = c

DigitVal(c) == (CHOOSE i \in 1..10 : DigitChars[i] = c) - 1

\* the characters \s matches and trim() strips, among those the inputs use
IsSpace(c) == c \in { " ", "\t", "\r", "\n" }

\* the integer n as a number of the model
Num(n) == Number(n * 100)

RECURSIVE DigitsValue(_, _)
\* the value of the longest prefix of digits of s, continued from acc
DigitsValue(s, acc) ==
    IF s = << >> \/ ~IsDigit(Head(s)) THEN acc
    ELSE DigitsValue(Tail(s), acc * 10 + DigitVal(Head(s)))

RECURSIVE DropDigits(_)
DropDigits(s) ==
    IF s = << >> \/ ~IsDigit(Head(s)) THEN s ELSE DropDigits(Tail(s))

\* parseInt(s, 10): optional sign, then the longest run of digits; NaN if none
ParseInt(s) ==
    LET signed == s # << >> /\ Head(s) \in { "-", "+" }
        body   == IF signed THEN Tail(s) ELSE s
    IN  IF body = << >> \/ ~IsDigit(Head(body)) THEN NaN
        ELSE IF signed /\ Head(s) = "-" THEN Num(0 - DigitsValue(body, 0))
        ELSE Num(DigitsValue(body, 0))

\* the first two fraction digits of s, as hundredths
FractionValue(s) ==
    LET d1 == IF Len(s) >= 1 /\ IsDigit(s[1]) THEN DigitVal(s[1]) ELSE 0
        d2 == IF Len(s) >= 2 /\ IsDigit(s[1]) /\ IsDigit(s[2]) THEN DigitVal(s[2]) ELSE 0
    IN  d1 * 10 + d2

\* parseFloat(s): optional sign, digits, optional "." and digits; NaN when no
\* digit starts the number.  The value keeps two fraction digits.
ParseFloat(s) ==
    LET signed  == s # << >> /\ Head(s) \in { "-", "+" }
        body    == IF signed THEN Tail(s) ELSE s
        rest    == DropDigits(body)
        hasInt  == body # << >> /\ IsDigit(Head(body))
        hasFrac == rest # << >> /\ Head(rest) = "." /\ Len(rest) >= 2 /\ IsDigit(rest[2])
        mag     == DigitsValue(body, 0) * 100
                     + (IF rest # << >> /\ Head(rest) = "." THEN FractionValue(Tail(rest)) ELSE 0)
    IN  IF ~hasInt /\ ~hasFrac THEN NaN
        ELSE IF signed /\ Head(s) = "-" THEN Number(0 - mag)
        ELSE Number(mag)

\* the decimal digits of a natural number, as characters
RECURSIVE NatChars(_)
NatChars(n) ==
    IF n < 10 THEN << DigitChars[n + 1] >>
    ELSE Append(NatChars(n \div 10), DigitChars[(n % 10) + 1])

\* a natural number below 100 in two digits ('2-digit')
TwoDigit(n) == << DigitChars[(n \div 10) + 1], DigitChars[(n % 10) + 1] >>

-----------------------------------------------------------------------------
(* The three-day parser *)

Modes == { "3day", "27day" }

\* the zones of the timezone selector, with their January offsets from UTC in hours
Timezones == { "UTC", "America/Anchorage", "Asia/Tokyo" }

TimezoneOffset(tz) ==
    CASE tz = "UTC" -> 0
      [] tz = "America/Anchorage" -> 0 - 9
      [] tz = "Asia/Tokyo" -> 9

MonthName(m) ==
    CASE m = 0 -> << "D", "e", "c" >>
      [] m = 1 -> << "J", "a", "n" >>
      [] m = 2 -> << "F", "e", "b" >>

\* new Date(time_tag + 'Z') formatted by Intl.DateTimeFormat('en-US', {timeZone,
\* month: 'short', day: 'numeric', hour: '2-digit', minute: '2-digit', hour12: false}):
\* the parts month, day, hour, minute of the instant in the zone.  Hours are
\* counted from the start of January 1st UTC; midnight is hour 00.
FormatToParts(timeTag, timezone) ==
    LET local == (timeTag.day - 1) * 24 + timeTag.hour + TimezoneOffset(timezone)
        dayNo == local \div 24
        month == IF dayNo < 0 THEN 0 ELSE IF dayNo > 30 THEN 2 ELSE 1
        day   == IF dayNo < 0 THEN dayNo + 32 ELSE IF dayNo > 30 THEN dayNo - 30 ELSE dayNo + 1
    IN  [ month  |-> MonthName(month),
          day    |-> NatChars(day),
          hour   |-> TwoDigit(local % 24),
          minute |-> TwoDigit(timeTag.minute) ]

\* `${month} ${day}\n${hour}:${minute}`
Label3Day(entry, timezone) ==
    LET parts == FormatToParts(entry[1], timezone)
    IN  parts.month \o << " " >> \o parts.day \o << "\n" >> \o parts.hour
          \o << ":" >> \o parts.minute

\* raw is raw3DayData (a nullable array of entries); the result is nullable
process3DayData(raw, timezone) ==
    IF raw = Null THEN Null
    ELSE LET entries == Val(raw)
         IN  Some([ labels     |-> [ i \in 1..Len(entries) |->
                                       Label3Day(entries[i], timezone) ],
                    dataPoints |-> [ i \in 1..Len(entries) |->
                                       ParseFloat(entries[i][2]) ] ])

\* getKpColor as it would be with > for >=
getKpColorStrict(kp) ==
    IF kp # NaN /\ kp.hundredths > 500 THEN "#ff3333"
    ELSE IF kp # NaN /\ kp.hundredths > 400 THEN "#ffcc00"
    ELSE "#39ff14"

\* a JavaScript >= on numbers: false whenever an operand is NaN
Geq(a, b) == a # NaN /\ b # NaN /\ a.hundredths >= b.hundredths

StormKp == 5
ActiveKp == 4

getKpColor(kp) ==
    IF Geq(kp, Num(StormKp)) THEN "#ff3333"
    ELSE IF Geq(kp, Num(ActiveKp)) THEN "#ffcc00"
    ELSE "#39ff14"

\* the chart after updateChart(data) on chart c
updateChart(c, data) ==
    IF data = Null THEN c
    ELSE [ labels          |-> Val(data).labels,
           data            |-> Val(data).dataPoints,
           backgroundColor |-> [ i \in 1..Len(Val(data).dataPoints) |->
                                    getKpColor(Val(data).dataPoints[i]) ] ]

\* the chart of initChart: no labels, no data, no colours
EmptyChart == [ labels |-> << >>, data |-> << >>, backgroundColor |-> << >> ]

\* #error after showError(message)
showError(message) == [ innerText |-> message, display |-> "block" ]

RECURSIVE FilterFrom(_, _, _)
\* the loop of fetch3DayForecast from 1-based row i of payload p, kept rows in
\* acc: a row that is JSON null makes rawData[i][2] throw a TypeError, and
\* the rows pushed so far stay in raw3DayData
FilterFrom(p, i, acc) ==
    IF i > Len(p) THEN [ stored |-> acc, threw |-> FALSE ]
    ELSE IF p[i] = Null THEN [ stored |-> acc, threw |-> TRUE ]
    ELSE IF Val(p[i])[3] # "observed" THEN FilterFrom(p, i + 1, Append(acc, Val(p[i])))
    ELSE FilterFrom(p, i + 1, acc)

\* raw3DayData = []; for (let i = 1; i < rawData.length; i++) ...
\* (row 0 of the payload, the header, is row 1 of the sequence)
FilterRaw(p) == FilterFrom(p, 2, << >>)

-----------------------------------------------------------------------------
(* The twenty-seven-day parser *)

\* the members of a finite set of integers in increasing order
Ascending(S) ==
    [ k \in 1..Cardinality(S) |->
        CHOOSE i \in S : Cardinality({ j \in S : j < i }) = k - 1 ]

\* the pieces of s around separators: separator k covers from[k]..to[k], and
\* the pieces are what lies before, between and after them, empty ones too
PiecesAround(s, from, to) ==
    [ k \in 1..(Len(from) + 1) |->
        SubSeq(s, IF k = 1 THEN 1 ELSE to[k - 1] + 1,
                  IF k = Len(from) + 1 THEN Len(s) ELSE from[k] - 1) ]

\* textData.split('\n')
SplitLines(text) ==
    LET at == Ascending({ i \in 1..Len(text) : text[i] = "\n" })
    IN  PiecesAround(text, at, at)

\* line.trim(): from the first to the last character that is no white space
Trim(s) ==
    LET solid == { i \in 1..Len(s) : ~IsSpace(s[i]) }
    IN  IF solid = { } THEN << >>
        ELSE SubSeq(s, CHOOSE i \in solid : \A j \in solid : i <= j,
                       CHOOSE i \in solid : \A j \in solid : j <= i)

\* trimmed.match(/^\d{4}/)
MatchesYear(s) == Len(s) >= 4 /\ \A i \in 1..4 : IsDigit(s[i])

\* s.split(/\s+/): the separators are the maximal runs of white space
SplitWs(s) ==
    LET space  == { i \in 1..Len(s) : IsSpace(s[i]) }
        starts == { i \in space : i = 1 \/ (i - 1) \notin space }
        ends   == { i \in space : i = Len(s) \/ (i + 1) \notin space }
    IN  PiecesAround(s, Ascending(starts), Ascending(ends))

MinTokens == 6

\* ParseLine as it would be without the test for a year in front
ParseLineAnyStart(series, line) ==
    LET parts == SplitWs(Trim(line))
    IN  IF Len(parts) >= 6
        THEN [ labels     |-> Append(series.labels, parts[2] \o << " " >> \o parts[3]),
               dataPoints |-> Append(series.dataPoints, ParseInt(parts[6])) ]
        ELSE series

\* the body of lines.forEach on one line: the series with the line's pair
\* pushed, or unchanged (parts[1], parts[2], parts[5] are tokens 2, 3 and 6
\* of the sequence)
ParseLine(series, line) ==
    LET trimmed == Trim(line)
        parts   == SplitWs(trimmed)
    IN  IF ~MatchesYear(trimmed) THEN series
        ELSE IF Len(parts) >= MinTokens
             THEN [ labels     |-> Append(series.labels, parts[2] \o << " " >> \o parts[3]),
                    dataPoints |-> Append(series.dataPoints, ParseInt(parts[6])) ]
        ELSE series

RECURSIVE ParseLines(_, _)
ParseLines(series, lines) ==
    IF lines = << >> THEN series
    ELSE ParseLines(ParseLine(series, Head(lines)), Tail(lines))

\* the try block of fetch27DayForecast from textData on
parse27Day(text) ==
    ParseLines([ labels |-> << >>, dataPoints |-> << >> ], SplitLines(text))

-----------------------------------------------------------------------------
(* The inputs: what the two feeds may answer *)

\* "3.33"
Kp333 ==
    << "3", ".", "3", "3" >>

\* "5.00"
Kp500 ==
    << "5", ".", "0", "0" >>

\* "2.00"
Kp200 ==
    << "2", ".", "0", "0" >>

\* a header line: six tokens, no year in front
LineHeader ==
    << "#", " ", " ", "U", "T", "C", " ", " ", " ", "R", "a", "d", "i", "o",
       " ", "F", "l", "u", "x", " ", " ", "P", "l", "a", "n", "e", "t", "a",
       "r", "y", " ", " ", "L", "a", "r", "g", "e", "s", "t" >>

\* a data row of the report
LineDec29 ==
    << "2", "0", "2", "5", " ", "D", "e", "c", " ", "2", "9", " ", " ", " ",
       " ", " ", "1", "8", "5", " ", " ", " ", " ", " ", " ", " ", " ", " ",
       " ", " ", "5", " ", " ", " ", " ", " ", " ", " ", " ", " ", " ", "2" >>

\* a data row with white space around it and a tab inside
LineDec30 ==
    << " ", " ", "2", "0", "2", "5", " ", "D", "e", "c", " ", "3", "0", "\t",
       "1", "8", "0", " ", " ", "1", "2", " ", " ", "5", " " >>

\* a row that starts with a year and has five tokens
LineShort ==
    << "2", "0", "2", "5", " ", "D", "e", "c", " ", "3", "1", " ", " ", " ",
       " ", " ", "1", "7", "5", " ", " ", " ", " ", " ", " ", " ", " ", " ",
       " ", " ", "8" >>

\* an empty line
LineBlank ==
    << >>

\* six tokens behind three digits only
LineThreeDigits ==
    << "2", "0", "2", " ", "J", "a", "n", " ", "0", "1", " ", "1", "7", "0",
       " ", "5", " ", "3" >>

\* a data row with seven tokens
LineLong ==
    << "2", "0", "2", "6", " ", "J", "a", "n", " ", "0", "1", " ", "1", "7",
       "0", " ", "5", " ", "4", " ", "q", "u", "i", "e", "t" >>

\* a data row whose Kp field is no number
LineNoKp ==
    << "2", "0", "2", "6", " ", "J", "a", "n", " ", "0", "2", " ", "1", "7",
       "0", " ", "5", " ", "n", "/", "a" >>

\* row 0 of the three-day feed: the column names
HeaderRow == << "time_tag", "kp", "observed", "noaa_scale" >>

TimeTag(d, h) == [ day |-> d, hour |-> h, minute |-> 0 ]

EntryObserved  == << TimeTag(1, 0), Kp200, "observed" >>
EntryEstimated == << TimeTag(1, 3), Kp333, "estimated" >>
EntryPredicted == << TimeTag(1, 21), Kp500, "predicted" >>

\* a well-formed payload: header, an observed row, two forecast rows
PayloadGood ==
    << Some(HeaderRow), Some(EntryObserved), Some(EntryEstimated), Some(EntryPredicted) >>

\* a payload with a null row between two forecast rows
PayloadNullRow ==
    << Some(HeaderRow), Some(EntryEstimated), Null, Some(EntryPredicted) >>

\* a payload with nothing but the header
PayloadHeaderOnly == << Some(HeaderRow) >>

Payloads3 == { PayloadGood, PayloadNullRow, PayloadHeaderOnly }

RECURSIVE JoinLines(_)
\* the lines of a report joined by line feeds
JoinLines(lines) ==
    IF lines = << >> THEN << >>
    ELSE IF Len(lines) = 1 THEN lines[1]
    ELSE lines[1] \o << "\n" >> \o JoinLines(Tail(lines))

TextGood == JoinLines(<< LineHeader, LineDec29, LineDec30 >>)
TextNoRows == JoinLines(<< LineHeader, LineBlank >>)

Texts27 == { TextGood, TextNoRows }

-----------------------------------------------------------------------------
(* Error messages *)

Prefix3 == "Error fetching 3-Day Forecast: "
Prefix27 == "Error fetching 27-Day Forecast: "
Fallback == "Could not load forecast data."

NotOk3 == "Failed to load 3-day forecast"
NotOk27 == "Failed to load 27-day forecast"
\* messages of the errors the platform throws: fetch() rejecting, the body
\* not being read or parsed, a property read of null
NetworkError == "Failed to fetch"
BodyError == "Unexpected end of JSON input"
NullRowError == "Cannot read properties of null (reading '2')"

-----------------------------------------------------------------------------
(* The state machine *)

Init ==
    /\ raw3DayData = Null
    /\ threeDayData = Null
    /\ twentySevenDayData = Null
    /\ currentMode = "3day"
    /\ currentTimezone = "UTC"
    /\ chart = EmptyChart
    /\ errorMsg = [ innerText |-> "", display |-> "" ]
    /\ loadingIndicator = "block"
    /\ pc3 = "fetch"
    /\ pc27 = "fetch"
    /\ pcLoad = "await"
    /\ d3 = Null
    /\ d27 = Null
    /\ rawData = Null
    /\ textData = Null
    /\ err3 = Null
    /\ err27 = Null
    /\ settled = << >>

\* the catch block of fetch3DayForecast, err.message being message
Catch3(message) ==
    /\ err3' = Some(message)
    /\ errorMsg' = showError(Prefix3 \o message)
    /\ loadingIndicator' = "none"
    /\ d3' = Null
    /\ pc3' = "done"
    /\ settled' = Append(settled, "3day")

\* the catch block of fetch27DayForecast
Catch27(message) ==
    /\ err27' = Some(message)
    /\ errorMsg' = showError(Prefix27 \o message)
    /\ loadingIndicator' = "none"
    /\ d27' = Null
    /\ pc27' = "done"
    /\ settled' = Append(settled, "27day")

\* await fetch(THREE_DAY_URL) settles: rejected, answered with a status that
\* is not ok, or answered ok (and response.json() is awaited)
Fetch3Response ==
    /\ pc3 = "fetch"
    /\ \/ Catch3(NetworkError)
       \/ Catch3(NotOk3)
       \/ /\ pc3' = "json"
          /\ UNCHANGED << errorMsg, loadingIndicator, d3, err3, settled >>
    /\ UNCHANGED << raw3DayData, threeDayData, twentySevenDayData, currentMode,
                    currentTimezone, chart, pc27, pcLoad, d27, rawData, textData,
                    err27 >>

\* await response.json() settles: rejected, or resolved to a payload, which is
\* filtered into raw3DayData and processed under the current timezone
Fetch3Json(payloads) ==
    /\ pc3 = "json"
    /\ \/ /\ Catch3(BodyError)
          /\ UNCHANGED << raw3DayData, rawData >>
       \/ \E p \in payloads :
            LET r == FilterRaw(p)
            IN  /\ rawData' = Some(p)
                /\ raw3DayData' = Some(r.stored)
                /\ IF r.threw
                   THEN Catch3(NullRowError)
                   ELSE /\ d3' = process3DayData(Some(r.stored), currentTimezone)
                        /\ pc3' = "done"
                        /\ settled' = Append(settled, "3day")
                        /\ UNCHANGED << errorMsg, loadingIndicator, err3 >>
    /\ UNCHANGED << threeDayData, twentySevenDayData, currentMode, currentTimezone,
                    chart, pc27, pcLoad, d27, textData, err27 >>

\* await fetch(TWENTY_SEVEN_DAY_URL) settles
Fetch27Response ==
    /\ pc27 = "fetch"
    /\ \/ Catch27(NetworkError)
       \/ Catch27(NotOk27)
       \/ /\ pc27' = "text"
          /\ UNCHANGED << errorMsg, loadingIndicator, d27, err27, settled >>
    /\ UNCHANGED << raw3DayData, threeDayData, twentySevenDayData, currentMode,
                    currentTimezone, chart, pc3, pcLoad, d3, rawData, textData,
                    err3 >>

\* await response.text() settles: rejected, or resolved to a report, which is parsed
Fetch27Text(texts) ==
    /\ pc27 = "text"
    /\ \/ /\ Catch27(NetworkError)
          /\ UNCHANGED textData
       \/ \E t \in texts :
            /\ textData' = Some(t)
            /\ d27' = Some(parse27Day(t))
            /\ pc27' = "done"
            /\ settled' = Append(settled, "27day")
            /\ UNCHANGED << errorMsg, loadingIndicator, err27 >>
    /\ UNCHANGED << raw3DayData, threeDayData, twentySevenDayData, currentMode,
                    currentTimezone, chart, pc3, pcLoad, d3, rawData, err3 >>

\* LoadDataResume as it would be if one feed's failure failed the whole load:
\* nothing is stored unless both series are present
LoadDataResumeAllOrNothing ==
    /\ pcLoad = "await"
    /\ pc3 = "done"
    /\ pc27 = "done"
    /\ threeDayData' = IF d27 = Null THEN Null ELSE d3
    /\ twentySevenDayData' = IF d3 = Null THEN Null ELSE d27
    /\ pcLoad' = "done"
    /\ loadingIndicator' = "none"
    /\ IF currentMode = "3day" /\ d3 # Null /\ d27 # Null
       THEN /\ chart' = updateChart(chart, d3)
            /\ UNCHANGED errorMsg
       ELSE /\ errorMsg' = showError(Fallback)
            /\ UNCHANGED chart
    /\ UNCHANGED << raw3DayData, currentMode, currentTimezone, pc3, pc27, d3, d27,
                    rawData, textData, err3, err27, settled >>

\* loadData after await Promise.all([...]): both promises have resolved
LoadDataResume ==
    /\ pcLoad = "await"
    /\ pc3 = "done"
    /\ pc27 = "done"
    /\ threeDayData' = d3
    /\ twentySevenDayData' = d27
    /\ pcLoad' = "done"
    /\ loadingIndicator' = "none"
    /\ IF currentMode = "3day" /\ d3 # Null
       THEN /\ chart' = updateChart(chart, d3)
            /\ UNCHANGED errorMsg
       ELSE /\ errorMsg' = showError(Fallback)
            /\ UNCHANGED chart
    /\ UNCHANGED << raw3DayData, currentMode, currentTimezone, pc3, pc27, d3, d27,
                    rawData, textData, err3, err27, settled >>

\* A click or a change event is a task of the event loop.  Once the second
\* fetch function has returned, Promise.all and the rest of loadData run as
\* microtasks of that same task, so no event handler runs in between.
UserCanAct == ~(pc3 = "done" /\ pc27 = "done" /\ pcLoad = "await")

\* switchMode as it would be if it parsed the cached entries again
switchModeReprocess(mode) ==
    /\ UserCanAct
    /\ currentMode' = mode
    /\ threeDayData' = process3DayData(raw3DayData, currentTimezone)
    /\ chart' = updateChart(chart, IF mode = "3day"
                                   THEN process3DayData(raw3DayData, currentTimezone)
                                   ELSE twentySevenDayData)
    /\ UNCHANGED << raw3DayData, twentySevenDayData, currentTimezone,
                    errorMsg, loadingIndicator, pc3, pc27, pcLoad, d3, d27,
                    rawData, textData, err3, err27, settled >>

\* the click handlers of the two mode buttons (the buttons' classes follow mode)
switchMode(mode) ==
    /\ UserCanAct
    /\ currentMode' = mode
    /\ chart' = updateChart(chart, IF mode = "3day" THEN threeDayData
                                   ELSE twentySevenDayData)
    /\ UNCHANGED << raw3DayData, threeDayData, twentySevenDayData, currentTimezone,
                    errorMsg, loadingIndicator, pc3, pc27, pcLoad, d3, d27,
                    rawData, textData, err3, err27, settled >>

\* setTimezone as it would be if it parsed under the timezone selected before
setTimezoneStale(tz) ==
    /\ UserCanAct
    /\ tz # currentTimezone
    /\ currentTimezone' = tz
    /\ IF raw3DayData # Null
       THEN /\ threeDayData' = process3DayData(raw3DayData, currentTimezone)
            /\ chart' = IF currentMode = "3day"
                        THEN updateChart(chart, process3DayData(raw3DayData, currentTimezone))
                        ELSE chart
       ELSE UNCHANGED << threeDayData, chart >>
    /\ UNCHANGED << raw3DayData, twentySevenDayData, currentMode, errorMsg,
                    loadingIndicator, pc3, pc27, pcLoad, d3, d27, rawData,
                    textData, err3, err27, settled >>

\* the change handler of the timezone selector; a change event carries a
\* value other than the selected one
setTimezone(tz) ==
    /\ UserCanAct
    /\ tz # currentTimezone
    /\ currentTimezone' = tz
    /\ IF raw3DayData # Null
       THEN /\ threeDayData' = process3DayData(raw3DayData, tz)
            /\ chart' = IF currentMode = "3day"
                        THEN updateChart(chart, process3DayData(raw3DayData, tz))
                        ELSE chart
       ELSE UNCHANGED << threeDayData, chart >>
    /\ UNCHANGED << raw3DayData, twentySevenDayData, currentMode, errorMsg,
                    loadingIndicator, pc3, pc27, pcLoad, d3, d27, rawData,
                    textData, err3, err27, settled >>

SwitchModeEvent == \E mode \in Modes : switchMode(mode)

SetTimezoneEvent == \E tz \in Timezones : setTimezone(tz)

Next ==
    \/ Fetch3Response
    \/ Fetch3Json(Payloads3)
    \/ Fetch27Response
    \/ Fetch27Text(Texts27)
    \/ LoadDataResume
    \/ SwitchModeEvent
    \/ SetTimezoneEvent

Spec == Init /\ [][Next]_vars

-----------------------------------------------------------------------------
(* Properties of the controller, checked under Spec *)

\* the series stored for a mode
SeriesOf(mode) == IF mode = "3day" THEN threeDayData ELSE twentySevenDayData

\* the chart's labels and data points are those of a series that is present
ChartShows(series) ==
    /\ chart.labels = Val(series).labels
    /\ chart.data = Val(series).dataPoints

\* C1: loadData resumes as soon as both fetch functions have returned,
\* whatever each returned and in whichever order; when exactly one of them
\* caught an error, the step of loadData stores null for that feed and, for
\* the other feed, the series computed from the body it received.
C1_OneFailureDoesNotFailTheOther ==
    /\ [](pc3 = "done" /\ pc27 = "done" /\ pcLoad = "await" => ENABLED LoadDataResume)
    /\ [][ (pcLoad = "await" /\ pcLoad' = "done") =>
             /\ (err3 # Null /\ err27 = Null) =>
                  /\ threeDayData' = Null
                  /\ twentySevenDayData' = Some(parse27Day(Val(textData)))
             /\ (err27 # Null /\ err3 = Null) =>
                  /\ twentySevenDayData' = Null
                  /\ \E tz \in Timezones :
                       threeDayData' =
                         process3DayData(Some(FilterRaw(Val(rawData)).stored), tz) ]_vars

\* C1 witness: the 27-day fetch failed first, the 3-day fetch succeeded after
\* it, and loadData has stored null and the three-day series
C1_Witness ==
    /\ pcLoad = "done"
    /\ settled = << "27day", "3day" >>
    /\ err27 # Null /\ err3 = Null
    /\ twentySevenDayData = Null
    /\ threeDayData # Null
    /\ Val(threeDayData).labels # << >>

\* C2: once loadData has finished after exactly one feed failed, the error
\* shown is that feed's message.
C2_FeedSpecificMessageAfterLoad ==
    pcLoad = "done" =>
      /\ (err3 # Null /\ err27 = Null) =>
           errorMsg = showError(Prefix3 \o Val(err3))
      /\ (err27 # Null /\ err3 = Null) =>
           errorMsg = showError(Prefix27 \o Val(err27))

\* C3: a timezone change with raw entries cached stores the parse of the
\* cached entries under the new timezone and draws it exactly when the mode
\* is 3day; with no raw entries it leaves series and chart alone; it never
\* moves a fetch pipeline nor touches what the pipelines hold.
C3_SetTimezoneReparsesCache ==
    [][ currentTimezone' # currentTimezone =>
          /\ raw3DayData # Null =>
               /\ threeDayData' = process3DayData(raw3DayData, currentTimezone')
               /\ currentMode = "3day" =>
                    chart' = updateChart(chart, threeDayData')
               /\ currentMode # "3day" => chart' = chart
          /\ raw3DayData = Null => UNCHANGED << threeDayData, chart >>
          /\ UNCHANGED << raw3DayData, twentySevenDayData, currentMode, pc3,
                          pc27, pcLoad, d3, d27, rawData, textData >> ]_vars

\* C3 witness: after a timezone change in 3day mode the stored series is the
\* cached entries under the new zone and the chart shows it
C3_Witness ==
    /\ currentTimezone = "America/Anchorage"
    /\ currentMode = "3day"
    /\ raw3DayData # Null
    /\ Val(raw3DayData) # << >>
    /\ threeDayData = process3DayData(raw3DayData, "America/Anchorage")
    /\ threeDayData # process3DayData(raw3DayData, "UTC")
    /\ ChartShows(threeDayData)

\* C4: switchMode(mode) sets the mode and draws the series stored for it (a
\* series that is absent draws nothing); raw entries, both series, the
\* timezone and the fetch pipelines are unchanged.
C4_SwitchModeFrame ==
    [][ \A mode \in Modes :
          switchMode(mode) =>
            /\ currentMode' = mode
            /\ IF SeriesOf(mode) # Null
               THEN /\ chart'.labels = Val(SeriesOf(mode)).labels
                    /\ chart'.data = Val(SeriesOf(mode)).dataPoints
               ELSE chart' = chart
            /\ UNCHANGED << raw3DayData, threeDayData, twentySevenDayData,
                            currentTimezone, pc3, pc27, pcLoad, d3, d27,
                            rawData, textData >> ]_vars

\* C4 witness: the mode was switched to 27day and the chart shows the stored
\* twenty-seven-day series
C4_Witness ==
    /\ currentMode = "27day"
    /\ twentySevenDayData # Null
    /\ Val(twentySevenDayData).labels # << >>
    /\ ChartShows(twentySevenDayData)
    /\ threeDayData # Null

RECURSIVE KeptFrom(_, _)
\* the rows of payload p from row i on that are entries with a status other
\* than "observed"
KeptFrom(p, i) ==
    IF i > Len(p) THEN << >>
    ELSE IF p[i] # Null /\ Val(p[i])[3] # "observed"
         THEN << Val(p[i]) >> \o KeptFrom(p, i + 1)
    ELSE KeptFrom(p, i + 1)

\* C5: whenever a three-day series is stored, it has one label/point pair
\* for each row behind the header whose status is not "observed", in order.
C5_OnePairPerForecastRow ==
    (threeDayData # Null /\ rawData # Null) =>
      LET kept   == KeptFrom(Val(rawData), 2)
          series == Val(threeDayData)
      IN  /\ Len(series.labels) = Len(kept)
          /\ Len(series.dataPoints) = Len(kept)
          /\ \A k \in 1..Len(kept) :
               /\ series.dataPoints[k] = ParseFloat(kept[k][2])
               /\ \E tz \in Timezones : series.labels[k] = Label3Day(kept[k], tz)

\* C8: once loadData has finished, the stored three-day series is the cached
\* raw entries processed under the selected timezone (and null exactly when
\* nothing is cached).
C8_SeriesFollowsCacheAndTimezone ==
    pcLoad = "done" =>
      threeDayData = process3DayData(raw3DayData, currentTimezone)

\* C9: once loadData has finished, a present series of the selected mode is
\* what the chart shows.
C9_ChartShowsSelectedSeries ==
    (pcLoad = "done" /\ SeriesOf(currentMode) # Null) =>
      ChartShows(SeriesOf(currentMode))

\* C10: no error message is displayed unless a feed's fetch failed.
C10_ErrorOnlyAfterFailure ==
    (err3 = Null /\ err27 = Null) => errorMsg.display # "block"

-----------------------------------------------------------------------------
(* The twenty-seven-day parser over every report of a few lines *)

MaxLines == 2

ReportLines ==
    { LineHeader, LineDec29, LineDec30, LineShort, LineBlank, LineThreeDigits,
      LineLong, LineNoKp }

\* every report of at most MaxLines lines
ReportTexts ==
    { JoinLines(ls) : ls \in UNION { [ 1..n -> ReportLines ] : n \in 0..MaxLines } }

Next27 ==
    \/ Fetch3Response
    \/ Fetch3Json({ PayloadGood })
    \/ Fetch27Response
    \/ Fetch27Text(ReportTexts)
    \/ LoadDataResume

Spec27 == Init /\ [][Next27]_vars

\* a line counts as a data row: trimmed, it begins with four digits and
\* splits on white space into six tokens or more
IsDataRow(line) ==
    /\ Len(Trim(line)) >= 4
    /\ \A i \in 1..4 : IsDigit(Trim(line)[i])
    /\ Len(SplitWs(Trim(line))) >= 6

\* C6: the series of a report that arrived has one pair for each data row, in
\* file order: label "<token 1> <token 2>", value the integer parse of token
\* 5; no other line gives a pair, and no error is caught.
C6_OnePairPerDataRow ==
    (pc27 = "done" /\ textData # Null) =>
      LET lines == SplitLines(Val(textData))
          rows  == Ascending({ i \in 1..Len(lines) : IsDataRow(lines[i]) })
          tok(k) == SplitWs(Trim(lines[rows[k]]))
      IN  /\ err27 = Null
          /\ d27 # Null
          /\ DOMAIN Val(d27).labels = 1..Len(rows)
          /\ DOMAIN Val(d27).dataPoints = 1..Len(rows)
          /\ \A k \in 1..Len(rows) :
               /\ Val(d27).labels[k] = tok(k)[2] \o << " " >> \o tok(k)[3]
               /\ Val(d27).dataPoints[k] = ParseInt(tok(k)[6])
          /\ pcLoad = "done" => twentySevenDayData = d27

\* C6 witness: a report of a header with six tokens and the row of Dec 30 has
\* been loaded as the single pair ("Dec 30", 5)
C6_Witness ==
    /\ pcLoad = "done"
    /\ textData = Some(JoinLines(<< LineHeader, LineDec30 >>))
    /\ twentySevenDayData =
         Some([ labels     |-> << << "D", "e", "c", " ", "3", "0" >> >>,
                dataPoints |-> << Number(500) >> ])

-----------------------------------------------------------------------------
(* The colour mapping over every Kp value of the scale *)

MaxKp == 9

\* a Kp value in hundredths as the feed writes it: "3.33"
KpChars(h) == NatChars(h \div 100) \o << "." >> \o TwoDigit(h % 100)

\* Kp fields: every value from 0.00 to MaxKp.00, a negative one, a missing one
KpFields ==
    { KpChars(h) : h \in 0..(MaxKp * 100) } \cup { << "-", "1", ".", "0", "0" >>, << >> }

KpPayloads ==
    { << Some(HeaderRow), Some(<< TimeTag(1, 0), kp, "predicted" >>) >> : kp \in KpFields }

NextKp ==
    \/ Fetch3Response
    \/ Fetch3Json(KpPayloads)
    \/ Fetch27Response
    \/ Fetch27Text({ TextGood })
    \/ LoadDataResume

SpecKp == Init /\ [][NextKp]_vars

\* C7: every bar of the chart has the storm colour for a value of 5 and
\* above, the active colour from 4 to just below 5, and the quiet colour
\* below 4 and for NaN.
C7_ColourTiers ==
    /\ DOMAIN chart.backgroundColor = DOMAIN chart.data
    /\ \A i \in DOMAIN chart.data :
         LET kp     == chart.data[i]
             colour == chart.backgroundColor[i]
         IN  /\ kp = NaN => colour = "#39ff14"
             /\ kp # NaN =>
                  /\ kp.hundredths >= 500 => colour = "#ff3333"
                  /\ (kp.hundredths >= 400 /\ kp.hundredths < 500) => colour = "#ffcc00"
                  /\ kp.hundredths < 400 => colour = "#39ff14"

\* C7 witness: a bar of exactly 5.00 is drawn in the storm colour
C7_Witness ==
    /\ chart.data = << Number(500) >>
    /\ chart.backgroundColor = << "#ff3333" >>

=============================================================================
